---------------------------- MODULE Spec2Model ----------------------------
(***************************************************************************)
(* Oyemi lexicon builder (tools/build_lexicon.py) and lexicon validator    *)
(* (tools/validate_lexicon.py).                                            *)
(*                                                                         *)
(* Representation.  Python strings that the code inspects character by     *)
(* character (surface words, codes, superclass codes) are sequences of     *)
(* one-character strings: 'bad' is <<"b","a","d">>.  Concept identifiers   *)
(* (only used as dictionary keys) are TLA+ strings.  SentiWordNet scores   *)
(* are integers in hundredths: 0.25 is 25, 1.0 is 100.                     *)
(***************************************************************************)
EXTENDS Integers, Sequences, FiniteSets, TLC

VARIABLES
    pc,                  \* position of the running program
    kb,                  \* the knowledge-base snapshot: list(wn.all_synsets())
    synset_index,        \* build_lexicon: number of synsets visited
    superclass_counters, \* build_lexicon: defaultdict(int), superclass -> count
    entries,             \* build_lexicon: list of (word, code, priority)
    antonym_pairs,       \* build_lexicon: set of (word, antonym)
    lexicon,             \* table lexicon(word, code, priority), in rowid order
    lexicon_exists,      \* LEXICON_PATH.exists(): the database file is there
    word_codes,          \* build_lexicon: word -> list of codes, as read back
    pair_order,          \* build_lexicon: antonym_pairs as the `for` visited it
    valence_fixes,       \* build_lexicon: list of (new_code, word, old_code)
    fix_index,           \* number of valence fixes already applied
    override_index,      \* number of VALENCE_OVERRIDES items already applied
    check_index,         \* run_validation: number of checks already run
    check_passed,        \* run_validation: the `passed` flag of each check run
    all_passed,          \* run_validation: all_passed
    all_issues,          \* run_validation: all_issues
    exit_code,           \* run_validation: the value returned
    call,                \* a single call of a pure function: its arguments
    ret                  \* ... and its result

vars == <<pc, kb, synset_index, superclass_counters, entries, antonym_pairs,
          lexicon, lexicon_exists, word_codes, pair_order, valence_fixes, fix_index,
          override_index, check_index, check_passed, all_passed, all_issues, exit_code,
          call, ret>>

buildVars == <<synset_index, superclass_counters, entries, antonym_pairs,
               word_codes, pair_order, valence_fixes, fix_index, override_index>>
validateVars == <<lexicon_exists, check_index, check_passed, all_passed,
                  all_issues, exit_code>>
callVars == <<call, ret>>

\* "no value": the empty sequence (every string and list result is a sequence)
None == <<>>

(***************************************************************************)
(* Python string operations, on sequences of characters.                  *)
(***************************************************************************)
DigitChars == <<"0", "1", "2", "3", "4", "5", "6", "7", "8", "9">>
LowerChars == <<"a", "b", "c", "d", "e", "f", "g", "h", "i", "j", "k", "l", "m",
                "n", "o", "p", "q", "r", "s", "t", "u", "v", "w", "x", "y", "z">>
UpperChars == <<"A", "B", "C", "D", "E", "F", "G", "H", "I", "J", "K", "L", "M",
                "N", "O", "P", "Q", "R", "S", "T", "U", "V", "W", "X", "Y", "Z">>

Range(s) == {s[i] : i \in DOMAIN s}

IsDigit(c) == c \in Range(DigitChars)
IsAlpha(c) == c \in Range(LowerChars) \cup Range(UpperChars)

\* str.lower()
lower(s) ==
    [i \in 1..Len(s) |->
        IF s[i] \in Range(UpperChars)
        THEN LowerChars[CHOOSE k \in 1..26 : UpperChars[k] = s[i]]
        ELSE s[i]]

\* str.replace(old, new) for a one-character old and a one-character new
replace(s, old, new) == [i \in 1..Len(s) |-> IF s[i] = old THEN new ELSE s[i]]

\* str.replace(old, '') for a one-character old
remove(s, old) == SelectSeq(s, LAMBDA c : c # old)

\* str.isalpha(): at least one character and every character a letter
isalpha(s) == Len(s) > 0 /\ \A i \in 1..Len(s) : IsAlpha(s[i])

\* str.endswith(suffix)
endswith(s, suffix) ==
    /\ Len(s) >= Len(suffix)
    /\ SubSeq(s, Len(s) - Len(suffix) + 1, Len(s)) = suffix

\* str(n) for n >= 0
RECURSIVE str(_)
str(n) ==
    IF n < 10 THEN <<DigitChars[n + 1]>>
    ELSE str(n \div 10) \o <<DigitChars[(n % 10) + 1]>>

\* int(s) for a string of decimal digits
RECURSIVE int(_)
int(s) ==
    IF Len(s) = 0 THEN 0
    ELSE 10 * int(SubSeq(s, 1, Len(s) - 1))
         + ((CHOOSE k \in 1..10 : DigitChars[k] = s[Len(s)]) - 1)

\* the minimum field width of the format specification ':05d'
LocalIdWidth == 5

\* f"{n:05d}": zero-padded to at least five characters, never truncated
format_05d(n) ==
    LET digits == str(n)
    IN  IF Len(digits) >= LocalIdWidth THEN digits
        ELSE [i \in 1..(LocalIdWidth - Len(digits)) |-> "0"] \o digits

\* str.split(sep) for a one-character sep
RECURSIVE split(_, _)
split(s, sep) ==
    IF \A i \in 1..Len(s) : s[i] # sep THEN <<s>>
    ELSE LET k == CHOOSE i \in 1..Len(s) :
                      s[i] = sep /\ \A j \in 1..(i - 1) : s[j] # sep
         IN  <<SubSeq(s, 1, k - 1)>> \o split(SubSeq(s, k + 1, Len(s)), sep)

\* sep.join(parts) for a one-character sep
RECURSIVE join(_, _)
join(parts, sep) ==
    IF Len(parts) = 0 THEN <<>>
    ELSE IF Len(parts) = 1 THEN parts[1]
    ELSE parts[1] \o <<sep>> \o join(Tail(parts), sep)

(***************************************************************************)
(* Static tables.  Each table holds the entries of the source table whose  *)
(* keys occur in the knowledge bases explored here; the values are the     *)
(* source's.                                                               *)
(***************************************************************************)
POS_MAP == [n |-> 1, v |-> 2, a |-> 3, s |-> 3, r |-> 4]

SUPERCLASS_ROOTS ==
    [x \in {"entity.n.01", "object.n.01", "abstraction.n.06", "feeling.n.01",
             "layoff.n.01"} |->
        CASE x = "entity.n.01"      -> <<"0", "0", "0", "1">>
          [] x = "object.n.01"      -> <<"0", "0", "0", "4">>
          [] x = "abstraction.n.06" -> <<"0", "1", "0", "0">>
          [] x = "feeling.n.01"     -> <<"0", "1", "2", "0">>
          [] x = "layoff.n.01"      -> <<"0", "2", "3", "3">>]

\* the values of SUPERCLASS_ROOTS: the codes of all its entries
SuperclassTableCodes ==
    {
      <<"0", "0", "0", "1">>, <<"0", "0", "0", "2">>, <<"0", "0", "0", "3">>, <<"0", "0", "0", "4">>,
      <<"0", "0", "0", "5">>, <<"0", "0", "0", "6">>, <<"0", "0", "0", "7">>, <<"0", "0", "0", "8">>,
      <<"0", "0", "1", "0">>, <<"0", "0", "1", "1">>, <<"0", "0", "1", "2">>, <<"0", "0", "1", "3">>,
      <<"0", "0", "1", "4">>, <<"0", "0", "1", "5">>, <<"0", "0", "1", "6">>, <<"0", "0", "1", "7">>,
      <<"0", "0", "1", "8">>, <<"0", "0", "1", "9">>, <<"0", "0", "2", "0">>, <<"0", "0", "2", "1">>,
      <<"0", "0", "2", "5">>, <<"0", "0", "2", "6">>, <<"0", "0", "2", "7">>, <<"0", "0", "2", "8">>,
      <<"0", "0", "2", "9">>, <<"0", "0", "3", "0">>, <<"0", "0", "3", "5">>, <<"0", "0", "3", "6">>,
      <<"0", "0", "3", "7">>, <<"0", "0", "3", "8">>, <<"0", "0", "3", "9">>, <<"0", "0", "4", "0">>,
      <<"0", "0", "4", "5">>, <<"0", "0", "4", "6">>, <<"0", "0", "4", "7">>, <<"0", "0", "4", "8">>,
      <<"0", "0", "5", "0">>, <<"0", "0", "5", "1">>, <<"0", "0", "5", "2">>, <<"0", "0", "5", "3">>,
      <<"0", "0", "5", "5">>, <<"0", "0", "5", "6">>, <<"0", "0", "5", "7">>, <<"0", "0", "5", "8">>,
      <<"0", "0", "6", "0">>, <<"0", "0", "6", "1">>, <<"0", "0", "6", "2">>, <<"0", "0", "6", "3">>,
      <<"0", "0", "6", "4">>, <<"0", "0", "6", "5">>, <<"0", "0", "6", "6">>, <<"0", "1", "0", "0">>,
      <<"0", "1", "0", "1">>, <<"0", "1", "0", "5">>, <<"0", "1", "0", "6">>, <<"0", "1", "0", "7">>,
      <<"0", "1", "0", "8">>, <<"0", "1", "0", "9">>, <<"0", "1", "1", "0">>, <<"0", "1", "1", "1">>,
      <<"0", "1", "1", "2">>, <<"0", "1", "1", "3">>, <<"0", "1", "2", "0">>, <<"0", "1", "2", "1">>,
      <<"0", "1", "2", "2">>, <<"0", "1", "2", "3">>, <<"0", "1", "2", "4">>, <<"0", "1", "2", "5">>,
      <<"0", "1", "2", "6">>, <<"0", "1", "2", "7">>, <<"0", "1", "2", "8">>, <<"0", "1", "2", "9">>,
      <<"0", "1", "3", "0">>, <<"0", "1", "3", "1">>, <<"0", "1", "3", "2">>, <<"0", "1", "3", "3">>,
      <<"0", "1", "3", "4">>, <<"0", "1", "4", "0">>, <<"0", "1", "4", "1">>, <<"0", "1", "4", "2">>,
      <<"0", "1", "4", "3">>, <<"0", "1", "4", "4">>, <<"0", "1", "4", "5">>, <<"0", "1", "5", "0">>,
      <<"0", "1", "5", "1">>, <<"0", "1", "5", "2">>, <<"0", "1", "5", "3">>, <<"0", "1", "5", "4">>,
      <<"0", "1", "5", "5">>, <<"0", "1", "6", "0">>, <<"0", "1", "6", "1">>, <<"0", "1", "6", "2">>,
      <<"0", "1", "6", "3">>, <<"0", "1", "6", "4">>, <<"0", "1", "6", "5">>, <<"0", "1", "6", "6">>,
      <<"0", "1", "7", "0">>, <<"0", "1", "7", "1">>, <<"0", "1", "7", "2">>, <<"0", "1", "7", "3">>,
      <<"0", "1", "7", "4">>, <<"0", "1", "7", "5">>, <<"0", "1", "7", "6">>, <<"0", "1", "8", "0">>,
      <<"0", "1", "8", "1">>, <<"0", "1", "8", "2">>, <<"0", "1", "8", "3">>, <<"0", "1", "8", "4">>,
      <<"0", "1", "8", "5">>, <<"0", "2", "0", "0">>, <<"0", "2", "0", "1">>, <<"0", "2", "0", "2">>,
      <<"0", "2", "0", "3">>, <<"0", "2", "0", "4">>, <<"0", "2", "0", "5">>, <<"0", "2", "0", "6">>,
      <<"0", "2", "0", "7">>, <<"0", "2", "0", "8">>, <<"0", "2", "1", "0">>, <<"0", "2", "1", "1">>,
      <<"0", "2", "1", "2">>, <<"0", "2", "1", "3">>, <<"0", "2", "1", "4">>, <<"0", "2", "1", "5">>,
      <<"0", "2", "1", "6">>, <<"0", "2", "2", "0">>, <<"0", "2", "2", "1">>, <<"0", "2", "2", "2">>,
      <<"0", "2", "2", "3">>, <<"0", "2", "2", "4">>, <<"0", "2", "2", "5">>, <<"0", "2", "2", "6">>,
      <<"0", "2", "3", "0">>, <<"0", "2", "3", "1">>, <<"0", "2", "3", "2">>, <<"0", "2", "3", "3">>,
      <<"0", "2", "3", "4">>, <<"0", "2", "3", "5">>, <<"0", "2", "3", "6">>, <<"0", "2", "3", "7">>,
      <<"0", "2", "5", "0">>, <<"0", "2", "5", "1">>, <<"0", "2", "5", "2">>, <<"0", "2", "5", "3">>,
      <<"0", "2", "5", "4">>, <<"0", "2", "5", "5">>, <<"0", "2", "5", "6">>, <<"0", "2", "5", "7">>,
      <<"0", "2", "5", "8">>, <<"0", "2", "5", "9">>, <<"0", "2", "6", "0">>, <<"0", "2", "6", "1">>,
      <<"2", "0", "0", "0">>, <<"2", "0", "0", "1">>, <<"2", "0", "0", "2">>, <<"2", "0", "1", "0">>,
      <<"2", "0", "1", "1">>, <<"2", "0", "1", "2">>, <<"2", "0", "1", "3">>, <<"2", "0", "1", "4">>,
      <<"2", "0", "1", "5">>, <<"2", "0", "2", "0">>, <<"2", "0", "2", "1">>, <<"2", "0", "2", "2">>,
      <<"2", "0", "2", "3">>, <<"2", "0", "2", "4">>, <<"2", "0", "2", "5">>, <<"2", "0", "2", "6">>,
      <<"2", "0", "2", "7">>, <<"2", "0", "3", "0">>, <<"2", "0", "3", "1">>, <<"2", "0", "3", "2">>,
      <<"2", "0", "3", "3">>, <<"2", "0", "3", "4">>, <<"2", "0", "3", "5">>, <<"2", "0", "4", "0">>,
      <<"2", "0", "4", "1">>, <<"2", "0", "4", "2">>, <<"2", "0", "4", "3">>, <<"2", "0", "4", "4">>,
      <<"2", "0", "4", "5">>, <<"2", "0", "4", "6">>, <<"2", "0", "4", "7">>, <<"2", "0", "4", "8">>,
      <<"2", "0", "5", "0">>, <<"2", "0", "5", "1">>, <<"2", "0", "5", "2">>, <<"2", "0", "5", "3">>,
      <<"2", "0", "5", "4">>, <<"2", "0", "5", "5">>, <<"2", "0", "5", "6">>, <<"2", "0", "5", "7">>,
      <<"2", "0", "6", "0">>, <<"2", "0", "6", "1">>, <<"2", "0", "6", "2">>, <<"2", "0", "6", "3">>,
      <<"2", "0", "6", "4">>, <<"2", "0", "6", "5">>, <<"2", "0", "6", "6">>, <<"2", "0", "6", "7">>,
      <<"2", "0", "6", "8">>, <<"2", "0", "7", "0">>, <<"2", "0", "7", "1">>, <<"2", "0", "7", "2">>,
      <<"2", "0", "7", "3">>, <<"2", "0", "7", "4">>, <<"2", "0", "8", "0">>, <<"2", "0", "8", "1">>,
      <<"2", "0", "8", "2">>, <<"2", "0", "8", "3">>, <<"2", "0", "8", "4">>, <<"2", "0", "8", "5">>,
      <<"2", "0", "8", "6">>, <<"2", "0", "8", "7">>, <<"2", "0", "8", "8">>, <<"2", "0", "9", "0">>,
      <<"2", "0", "9", "1">>, <<"2", "0", "9", "2">>, <<"2", "0", "9", "3">>, <<"2", "0", "9", "4">>,
      <<"2", "0", "9", "5">>, <<"2", "0", "9", "6">>, <<"2", "1", "0", "0">>, <<"2", "1", "0", "1">>,
      <<"2", "1", "0", "2">>, <<"2", "1", "0", "3">>, <<"2", "1", "0", "4">>, <<"2", "1", "0", "5">>,
      <<"2", "1", "0", "6">>, <<"2", "1", "0", "7">>, <<"2", "1", "0", "8">>, <<"3", "0", "0", "0">>,
      <<"3", "0", "0", "1">>, <<"3", "0", "0", "2">>, <<"3", "0", "0", "3">>, <<"3", "0", "0", "4">>,
      <<"3", "0", "0", "5">>, <<"3", "0", "0", "6">>, <<"3", "0", "1", "0">>, <<"3", "0", "1", "1">>,
      <<"3", "0", "1", "2">>, <<"3", "0", "1", "3">>, <<"3", "0", "1", "4">>, <<"3", "0", "1", "5">>,
      <<"3", "0", "1", "6">>, <<"3", "0", "1", "7">>, <<"3", "0", "1", "8">>, <<"3", "0", "1", "9">>,
      <<"3", "0", "2", "0">>, <<"3", "0", "2", "1">>, <<"3", "0", "2", "2">>, <<"3", "0", "2", "3">>,
      <<"3", "0", "3", "0">>, <<"3", "0", "3", "1">>, <<"3", "0", "3", "2">>, <<"3", "0", "3", "3">>,
      <<"3", "0", "3", "4">>, <<"3", "0", "3", "5">>, <<"3", "0", "3", "6">>, <<"3", "0", "3", "7">>,
      <<"3", "0", "3", "8">>, <<"4", "0", "0", "0">>, <<"4", "0", "0", "1">>, <<"4", "0", "0", "2">>,
      <<"4", "0", "0", "3">>, <<"4", "0", "0", "4">>, <<"4", "0", "0", "5">>, <<"4", "0", "0", "6">>,
      <<"4", "0", "0", "7">>, <<"4", "0", "0", "8">>, <<"4", "0", "0", "9">> }

\* VALENCE_OVERRIDES with the entry of 'fired' entered as positive
VALENCE_OVERRIDES_FiredPositive ==
    << <<(<<"g", "o", "o", "d">>), 1>>,
       <<(<<"f", "i", "r", "e", "d">>), 1>> >>

\* dict items in source order: (word, valence)
VALENCE_OVERRIDES ==
    << <<(<<"g", "o", "o", "d">>), 1>>,
       <<(<<"f", "i", "r", "e", "d">>), 2>> >>

OverrideWords == {VALENCE_OVERRIDES[i][1] : i \in DOMAIN VALENCE_OVERRIDES}

\* VALENCE_OVERRIDES[word]
OverrideOf(word) ==
    VALENCE_OVERRIDES[CHOOSE i \in DOMAIN VALENCE_OVERRIDES :
                          VALENCE_OVERRIDES[i][1] = word][2]

ABSTRACT_HYPERNYMS ==
    {"abstraction.n.06", "psychological_feature.n.01", "cognition.n.01",
     "attribute.n.02", "relation.n.01", "communication.n.02", "measure.n.02",
     "state.n.02", "event.n.01", "group.n.01", "feeling.n.01", "emotion.n.01"}

CONCRETE_HYPERNYMS ==
    {"physical_entity.n.01", "object.n.01", "artifact.n.01", "organism.n.01",
     "substance.n.01", "body_part.n.01", "natural_object.n.01", "food.n.01",
     "location.n.01", "structure.n.01", "person.n.01", "animal.n.01"}

(***************************************************************************)
(* A synset of the knowledge base is a record                              *)
(*   [pos, paths, paths_ok, pos_score, neg_score, senti_ok, lemmas]        *)
(* pos: synset.pos(); paths: synset.hypernym_paths(), in the order and     *)
(* direction the knowledge base returns them; paths_ok = FALSE: the call   *)
(* raises; pos_score, neg_score: the SentiWordNet scores in hundredths;    *)
(* senti_ok = FALSE: swn.senti_synset raises; lemmas: synset.lemmas(),     *)
(* each [name, count, antonyms] with antonyms the names of                 *)
(* lemma.antonyms().                                                       *)
(***************************************************************************)

StrongThreshold == 25
WeakThreshold == 10

\* get_valence_sentiwordnet with the threshold tests dropped
get_valence_sentiwordnet_NoThreshold(synset) ==
    IF ~synset.senti_ok THEN 0
    ELSE IF synset.pos_score > synset.neg_score THEN 1
    ELSE IF synset.neg_score > synset.pos_score THEN 2
    ELSE 0

get_valence_sentiwordnet(synset) ==
    IF ~synset.senti_ok THEN 0
    ELSE LET pos_score == synset.pos_score
             neg_score == synset.neg_score
         IN  IF pos_score > neg_score
             THEN IF pos_score >= StrongThreshold THEN 1
                  ELSE IF pos_score >= WeakThreshold THEN 1
                  ELSE 0
             ELSE IF neg_score > pos_score
             THEN IF neg_score >= StrongThreshold THEN 2
                  ELSE IF neg_score >= WeakThreshold THEN 2
                  ELSE 0
             ELSE 0

\* get_valence_with_override without the override lookup
get_valence_with_override_LexicalOnly(synset, word) ==
    get_valence_sentiwordnet(synset)

get_valence_with_override(synset, word) ==
    LET word_lower == lower(word)
    IN  IF word_lower \in OverrideWords THEN OverrideOf(word_lower)
        ELSE get_valence_sentiwordnet(synset)

\* get_abstractness looking at the ancestors of the first path only
get_abstractness_FirstPath(synset) ==
    IF ~synset.paths_ok THEN 1
    ELSE LET hypernym_names ==
                 IF Len(synset.paths) = 0 THEN {} ELSE Range(synset.paths[1])
             is_abstract == (hypernym_names \cap ABSTRACT_HYPERNYMS) # {}
             is_concrete == (hypernym_names \cap CONCRETE_HYPERNYMS) # {}
         IN  IF is_abstract /\ ~is_concrete THEN 2
             ELSE IF is_concrete /\ ~is_abstract THEN 0
             ELSE 1

get_abstractness(synset) ==
    IF ~synset.paths_ok THEN 1
    ELSE LET hypernym_names ==
                 UNION {Range(synset.paths[p]) : p \in DOMAIN synset.paths}
             is_abstract == (hypernym_names \cap ABSTRACT_HYPERNYMS) # {}
             is_concrete == (hypernym_names \cap CONCRETE_HYPERNYMS) # {}
         IN  IF is_abstract /\ ~is_concrete THEN 2
             ELSE IF is_concrete /\ ~is_abstract THEN 0
             ELSE 1

\* _get_fallback_superclass testing pos == 'a' where the source has pos in ('a', 's')
_get_fallback_superclass_HeadAdjectiveOnly(synset) ==
    LET pos == synset.pos
    IN  IF pos = "n" THEN <<"0", "9", "9", "9">>
        ELSE IF pos = "v" THEN <<"2", "9", "9", "9">>
        ELSE IF pos = "a" THEN <<"3", "9", "9", "9">>
        ELSE <<"4", "9", "9", "9">>

_get_fallback_superclass(synset) ==
    LET pos == synset.pos
    IN  IF pos = "n" THEN <<"0", "9", "9", "9">>
        ELSE IF pos = "v" THEN <<"2", "9", "9", "9">>
        ELSE IF pos \in {"a", "s"} THEN <<"3", "9", "9", "9">>
        ELSE <<"4", "9", "9", "9">>

\* ScanPath without `reversed`: the first match from the start of the path
ScanPath_Forward(path) ==
    IF \E i \in DOMAIN path : path[i] \in DOMAIN SUPERCLASS_ROOTS
    THEN LET k == CHOOSE i \in DOMAIN path :
                      /\ path[i] \in DOMAIN SUPERCLASS_ROOTS
                      /\ \A j \in DOMAIN path :
                            j < i => path[j] \notin DOMAIN SUPERCLASS_ROOTS
         IN  SUPERCLASS_ROOTS[path[k]]
    ELSE None

\* the inner loop `for ancestor in reversed(path)`: the code of the first
\* ancestor, from the end of the path, that is a key of SUPERCLASS_ROOTS
ScanPath(path) ==
    IF \E i \in DOMAIN path : path[i] \in DOMAIN SUPERCLASS_ROOTS
    THEN LET k == CHOOSE i \in DOMAIN path :
                      /\ path[i] \in DOMAIN SUPERCLASS_ROOTS
                      /\ \A j \in DOMAIN path :
                            j > i => path[j] \notin DOMAIN SUPERCLASS_ROOTS
         IN  SUPERCLASS_ROOTS[path[k]]
    ELSE None

\* the outer loop `for path in paths`, from path k on
RECURSIVE ScanPaths(_, _)
ScanPaths(paths, k) ==
    IF k > Len(paths) THEN None
    ELSE IF ScanPath(paths[k]) # None THEN ScanPath(paths[k])
    ELSE ScanPaths(paths, k + 1)

\* get_superclass_code resolving to the match nearest the end of its path,
\* over all paths, instead of the first path's match
get_superclass_code_Closest(synset) ==
    IF ~synset.paths_ok THEN _get_fallback_superclass(synset)
    ELSE LET matches ==
                 UNION {{<<p, i>> : i \in {x \in DOMAIN synset.paths[p] :
                               synset.paths[p][x] \in DOMAIN SUPERCLASS_ROOTS}} :
                        p \in DOMAIN synset.paths}
             Dist(m) == Len(synset.paths[m[1]]) - m[2]
         IN  IF matches = {} THEN _get_fallback_superclass(synset)
             ELSE LET best == CHOOSE m \in matches :
                                  \A o \in matches :
                                      \/ Dist(m) < Dist(o)
                                      \/ Dist(m) = Dist(o) /\ m[1] <= o[1]
                  IN  SUPERCLASS_ROOTS[synset.paths[best[1]][best[2]]]

get_superclass_code(synset) ==
    IF ~synset.paths_ok THEN _get_fallback_superclass(synset)
    ELSE IF Len(synset.paths) = 0 THEN _get_fallback_superclass(synset)
    ELSE IF ScanPaths(synset.paths, 1) # None THEN ScanPaths(synset.paths, 1)
    ELSE _get_fallback_superclass(synset)

(***************************************************************************)
(* build_lexicon: the per-synset loop body.                                *)
(***************************************************************************)
\* lemma.name().lower().replace('_', ' ')
SurfaceWord(name) == replace(lower(name), "_", " ")

\* IsCleanWord with isalnum() in place of isalpha()
IsCleanWord_Alnum(word) ==
    LET clean_word == remove(remove(word, " "), "-")
    IN  /\ Len(clean_word) > 0
        /\ \A i \in DOMAIN clean_word : IsAlpha(clean_word[i]) \/ IsDigit(clean_word[i])

\* word.replace(' ', '').replace('-', '').isalpha()
IsCleanWord(word) == isalpha(remove(remove(word, " "), "-"))

\* f"{superclass}-{local_id}-{pos}-{abstractness}-{word_valence}"
MakeCode(superclass, local_id, pos, abstractness, word_valence) ==
    superclass \o <<"-">> \o local_id \o <<"-">> \o str(pos) \o <<"-">>
        \o str(abstractness) \o <<"-">> \o str(word_valence)

SuperclassBonus == 10000
LemmaOrderBase == 10

Max(a, b) == IF a >= b THEN a ELSE b

\* Priority with the lemma-order bonus weighted above the frequency
Priority_OrderWeighted(lemma_freq, superclass, lemma_idx) ==
    LET superclass_bonus ==
            IF endswith(superclass, <<"9", "9", "9">>) THEN 0 ELSE SuperclassBonus
        lemma_order_bonus == Max(0, LemmaOrderBase - lemma_idx)
    IN  lemma_freq + superclass_bonus + LemmaOrderBase * lemma_order_bonus

\* Priority with lemma_order_bonus = 10 - lemma_idx, not clamped at 0
Priority_NoClamp(lemma_freq, superclass, lemma_idx) ==
    LET superclass_bonus ==
            IF endswith(superclass, <<"9", "9", "9">>) THEN 0 ELSE SuperclassBonus
    IN  lemma_freq + superclass_bonus + (LemmaOrderBase - lemma_idx)

\* priority = lemma_freq + superclass_bonus + lemma_order_bonus
Priority(lemma_freq, superclass, lemma_idx) ==
    LET superclass_bonus ==
            IF endswith(superclass, <<"9", "9", "9">>) THEN 0 ELSE SuperclassBonus
        lemma_order_bonus == Max(0, LemmaOrderBase - lemma_idx)
    IN  lemma_freq + superclass_bonus + lemma_order_bonus

\* POS_MAP.get(synset.pos(), 1)
PosDigit(synset) ==
    IF synset.pos \in DOMAIN POS_MAP THEN POS_MAP[synset.pos] ELSE 1

\* the rows appended to `entries` for the lemmas k.. of a synset whose
\* superclass counter has just become `counter` (lemma_idx = k - 1)
RECURSIVE LemmaEntries(_, _, _)
LemmaEntries(synset, counter, k) ==
    IF k > Len(synset.lemmas) THEN <<>>
    ELSE LET lemma == synset.lemmas[k]
             superclass == get_superclass_code(synset)
             local_id == format_05d(counter)
             word == SurfaceWord(lemma.name)
             word_valence == get_valence_with_override(synset, word)
             code == MakeCode(superclass, local_id, PosDigit(synset),
                              get_abstractness(synset), word_valence)
             priority == Priority(lemma.count, superclass, k - 1)
         IN  (IF IsCleanWord(word)
              THEN <<[word |-> word, code |-> code, priority |-> priority]>>
              ELSE <<>>)
             \o LemmaEntries(synset, counter, k + 1)

\* the pairs added to `antonym_pairs` for the lemmas of a synset
LemmaAntonymPairs(synset) ==
    UNION {
        LET lemma == synset.lemmas[k]
            word == SurfaceWord(lemma.name)
        IN  IF ~IsCleanWord(word) THEN {}
            ELSE UNION {
                LET ant_word == SurfaceWord(lemma.antonyms[a])
                IN  IF IsCleanWord(ant_word)
                    THEN {<<word, ant_word>>, <<ant_word, word>>}
                    ELSE {}
                : a \in DOMAIN lemma.antonyms}
        : k \in DOMAIN synset.lemmas}

\* Counter as one counter shared by all superclasses
Counter_Global(d, key) ==
    IF DOMAIN d = {} THEN 0
    ELSE LET top == CHOOSE c \in DOMAIN d : \A o \in DOMAIN d : d[c] >= d[o]
         IN  d[top]

\* defaultdict(int): d[key], 0 when the key is absent
Counter(d, key) == IF key \in DOMAIN d THEN d[key] ELSE 0

(***************************************************************************)
(* The knowledge base.  kb.rest is the list of synsets; kb.fill is the     *)
(* number of copies of FillerSynset that precede it in all_synsets.        *)
(***************************************************************************)
Lemma(name, count, antonyms) ==
    [name |-> name, count |-> count, antonyms |-> antonyms]

Synset(pos, paths, pos_score, neg_score, lemmas) ==
    [pos |-> pos, paths |-> paths, paths_ok |-> TRUE, pos_score |-> pos_score,
     neg_score |-> neg_score, senti_ok |-> TRUE, lemmas |-> lemmas]

\* a noun synset with no hypernym path whose only lemma is not alphabetic
FillerSynset == Synset("n", <<>>, 0, 0, <<Lemma(<<"1">>, 0, <<>>)>>)

NumSynsets(k) == k.fill + Len(k.rest)
SynsetAt(k, i) == IF i <= k.fill THEN FillerSynset ELSE k.rest[i - k.fill]

(***************************************************************************)
(* validate_lexicon.validate_code_format: re.match of                      *)
(* ^(\d{4})-(\d{5})-([1-4])-([0-2])-([0-2])$ .  In Python `$` matches at   *)
(* the end of the string and also just before a newline that ends it.      *)
(***************************************************************************)
CodePattern ==
    <<DigitChars, DigitChars, DigitChars, DigitChars, <<"-">>,
      DigitChars, DigitChars, DigitChars, DigitChars, DigitChars, <<"-">>,
      <<"1", "2", "3", "4">>, <<"-">>,
      <<"0", "1", "2">>, <<"-">>,
      <<"0", "1", "2">> >>

validate_code_format(code) ==
    /\ \/ Len(code) = Len(CodePattern)
       \/ Len(code) = Len(CodePattern) + 1 /\ code[Len(code)] = "\n"
    /\ \A i \in DOMAIN CodePattern : code[i] \in Range(CodePattern[i])

(***************************************************************************)
(* The order of strings, as ORDER BY word and the PRIMARY KEY index of     *)
(* table lexicon keep it.                                                  *)
(***************************************************************************)
\* ord() order of the characters that occur
CharOrder ==
    <<"\n", " ", "-">> \o DigitChars \o UpperChars \o <<"_">> \o LowerChars

Ord(c) == CHOOSE k \in DOMAIN CharOrder : CharOrder[k] = c

\* s < t for strings: the BINARY collation of SQLite, and Python's str order
RECURSIVE StrLess(_, _)
StrLess(s, t) ==
    IF Len(t) = 0 THEN FALSE
    ELSE IF Len(s) = 0 THEN TRUE
    ELSE IF s[1] # t[1] THEN Ord(s[1]) < Ord(t[1])
    ELSE StrLess(Tail(s), Tail(t))

\* the elements of a finite set of strings in ascending order
RECURSIVE SortedStrings(_)
SortedStrings(S) ==
    IF S = {} THEN <<>>
    ELSE LET least == CHOOSE x \in S : \A y \in S \ {x} : StrLess(x, y)
         IN  <<least>> \o SortedStrings(S \ {least})

(***************************************************************************)
(* The persistence collaborator: table lexicon, PRIMARY KEY (word, code).  *)
(***************************************************************************)
HasKey(table, word, code) ==
    \E i \in DOMAIN table : table[i].word = word /\ table[i].code = code

\* INSERT without the OR IGNORE conflict clause
InsertPlain(table, row) == Append(table, row)

\* INSERT OR IGNORE INTO lexicon (word, code, priority) VALUES (?, ?, ?)
InsertOrIgnore(table, row) ==
    IF HasKey(table, row.word, row.code) THEN table ELSE Append(table, row)

\* cursor.executemany("INSERT OR IGNORE ...", rows), from row k on
RECURSIVE InsertMany(_, _, _)
InsertMany(table, rows, k) ==
    IF k > Len(rows) THEN table
    ELSE InsertMany(InsertOrIgnore(table, rows[k]), rows, k + 1)

\* UPDATE lexicon SET code = new_code WHERE word = word AND code = old_code
UpdateCode(table, new_code, word, old_code) ==
    [i \in DOMAIN table |->
        IF table[i].word = word /\ table[i].code = old_code
        THEN [table[i] EXCEPT !.code = new_code]
        ELSE table[i]]

\* the UPDATE would leave two rows with one (word, code): sqlite3 raises
\* IntegrityError and the statement changes nothing
UpdateConflicts(table, new_code, word, old_code) ==
    \E i, j \in DOMAIN table :
        /\ i # j
        /\ table[i].word = word /\ table[i].code = old_code
        /\ UpdateCode(table, new_code, word, old_code)[j].word = word
        /\ UpdateCode(table, new_code, word, old_code)[j].code = new_code

\* SELECT code FROM lexicon WHERE word = ?  The statement has no ORDER BY;
\* sqlite3 answers it from the index of PRIMARY KEY (word, code), so the codes
\* of the word come in ascending order, whatever the order of insertion
CodesOf(table, word) ==
    SortedStrings({table[i].code : i \in {j \in DOMAIN table : table[j].word = word}})

WordsOf(table) == {table[i].word : i \in DOMAIN table}

\* every list holding the elements of the finite set S once each
RECURSIVE Orderings(_)
Orderings(S) ==
    IF S = {} THEN {<<>>}
    ELSE UNION {{<<x>> \o rest : rest \in Orderings(S \ {x})} : x \in S}

\* every list holding the elements of the list s once each, in some order
Reorderings(s) ==
    {[i \in DOMAIN s |-> s[f[i]]] : f \in Orderings(DOMAIN s)}

\* every word_codes dictionary that reading the table can build for `words`:
\* each word's codes, in an order the read may return them (the index order
\* of CodesOf is the one sqlite3 takes; without ORDER BY any other is allowed)
RECURSIVE WordCodeReadings(_, _)
WordCodeReadings(table, words) ==
    IF words = {} THEN {<<>>}
    ELSE LET w == CHOOSE x \in words : TRUE
         IN  {[x \in DOMAIN wc \cup {w} |-> IF x = w THEN codes ELSE wc[x]] :
                 wc \in WordCodeReadings(table, words \ {w}),
                 codes \in Reorderings(CodesOf(table, w))}

(***************************************************************************)
(* build_lexicon: antonym propagation.                                     *)
(***************************************************************************)
\* int(code.split('-')[4])
ValenceOf(code) == int(split(code, "-")[5])

\* WithValence keeping three fields of the code instead of four
WithValence_ThreeFields(code, valence) ==
    join(SubSeq(split(code, "-"), 1, 3) \o <<str(valence)>>, "-")

\* '-'.join(parts[:4] + [str(valence)])
WithValence(code, valence) ==
    join(SubSeq(split(code, "-"), 1, 4) \o <<str(valence)>>, "-")

\* NeutralFixes giving the neutral word its antonym's own polarity
RECURSIVE NeutralFixes_SamePolarity(_, _, _, _)
NeutralFixes_SamePolarity(codes, word, v, k) ==
    IF k > Len(codes) THEN <<>>
    ELSE LET old_code == codes[k]
         IN  (IF split(old_code, "-")[5] = <<"0">>
              THEN <<[new_code |-> WithValence(old_code, v),
                      word |-> word, old_code |-> old_code]>>
              ELSE <<>>)
             \o NeutralFixes_SamePolarity(codes, word, v, k + 1)

\* NeutralFixes without the test that the code is neutral
RECURSIVE NeutralFixes_EveryCode(_, _, _, _)
NeutralFixes_EveryCode(codes, word, v, k) ==
    IF k > Len(codes) THEN <<>>
    ELSE LET old_code == codes[k]
             opposite == IF v = 1 THEN 2 ELSE 1
         IN  <<[new_code |-> WithValence(old_code, opposite),
                word |-> word, old_code |-> old_code]>>
             \o NeutralFixes_EveryCode(codes, word, v, k + 1)

\* the fixes appended for the codes k.. of the neutral word, whose antonym
\* has valence v
RECURSIVE NeutralFixes(_, _, _, _)
NeutralFixes(codes, word, v, k) ==
    IF k > Len(codes) THEN <<>>
    ELSE LET old_code == codes[k]
             opposite == IF v = 1 THEN 2 ELSE 1
         IN  (IF split(old_code, "-")[5] = <<"0">>
              THEN <<[new_code |-> WithValence(old_code, opposite),
                      word |-> word, old_code |-> old_code]>>
              ELSE <<>>)
             \o NeutralFixes(codes, word, v, k + 1)

\* PairFixes without the skip of override-protected words
PairFixes_NoOverrideSkip(wc, word1, word2) ==
    IF ~(word1 \in DOMAIN wc /\ word2 \in DOMAIN wc) THEN <<>>
    ELSE LET v1 == ValenceOf(wc[word1][1])
             v2 == ValenceOf(wc[word2][1])
         IN  IF v1 = 0 /\ v2 # 0 THEN NeutralFixes(wc[word1], word1, v2, 1)
             ELSE IF v2 = 0 /\ v1 # 0 THEN NeutralFixes(wc[word2], word2, v1, 1)
             ELSE <<>>

\* PairFixes reading a word as neutral when any of its codes is neutral
PairFixes_AnyNeutral(wc, word1, word2) ==
    IF ~(word1 \in DOMAIN wc /\ word2 \in DOMAIN wc) THEN <<>>
    ELSE IF lower(word1) \in OverrideWords \/ lower(word2) \in OverrideWords
    THEN <<>>
    ELSE LET Read(w) == IF \E k \in DOMAIN wc[w] : ValenceOf(wc[w][k]) = 0
                        THEN 0 ELSE ValenceOf(wc[w][1])
             v1 == Read(word1)
             v2 == Read(word2)
         IN  IF v1 = 0 /\ v2 # 0 THEN NeutralFixes(wc[word1], word1, v2, 1)
             ELSE IF v2 = 0 /\ v1 # 0 THEN NeutralFixes(wc[word2], word2, v1, 1)
             ELSE <<>>

\* the body of `for word1, word2 in antonym_pairs`: the fixes it appends
PairFixes(wc, word1, word2) ==
    IF ~(word1 \in DOMAIN wc /\ word2 \in DOMAIN wc) THEN <<>>
    ELSE IF lower(word1) \in OverrideWords \/ lower(word2) \in OverrideWords
    THEN <<>>
    ELSE LET v1 == ValenceOf(wc[word1][1])
             v2 == ValenceOf(wc[word2][1])
         IN  IF v1 = 0 /\ v2 # 0 THEN NeutralFixes(wc[word1], word1, v2, 1)
             ELSE IF v2 = 0 /\ v1 # 0 THEN NeutralFixes(wc[word2], word2, v1, 1)
             ELSE <<>>

\* AllFixes with word_codes brought up to date after every pair
RECURSIVE AllFixes_Chained(_, _, _)
AllFixes_Chained(wc, order, k) ==
    IF k > Len(order) THEN <<>>
    ELSE LET fixes == PairFixes(wc, order[k][1], order[k][2])
             Fixed(w, code) ==
                 IF \E f \in Range(fixes) : f.word = w /\ f.old_code = code
                 THEN (CHOOSE f \in Range(fixes) :
                           f.word = w /\ f.old_code = code).new_code
                 ELSE code
             updated == [w \in DOMAIN wc |->
                            [i \in DOMAIN wc[w] |-> Fixed(w, wc[w][i])]]
         IN  fixes \o AllFixes_Chained(updated, order, k + 1)

\* the whole loop, over the pairs in the order given, from pair k on
RECURSIVE AllFixes(_, _, _)
AllFixes(wc, order, k) ==
    IF k > Len(order) THEN <<>>
    ELSE PairFixes(wc, order[k][1], order[k][2]) \o AllFixes(wc, order, k + 1)

(***************************************************************************)
(* build_lexicon: the actions.                                             *)
(***************************************************************************)
\* one iteration of `for synset in tqdm(all_synsets)`
ProcessSynset ==
    /\ pc = "process"
    /\ synset_index < NumSynsets(kb)
    /\ LET synset == SynsetAt(kb, synset_index + 1)
           superclass == get_superclass_code(synset)
           counter == Counter(superclass_counters, superclass) + 1
       IN  /\ synset_index' = synset_index + 1
           /\ superclass_counters' =
                  [c \in DOMAIN superclass_counters \cup {superclass} |->
                      IF c = superclass THEN counter ELSE superclass_counters[c]]
           /\ entries' = entries \o LemmaEntries(synset, counter, 1)
           /\ antonym_pairs' = antonym_pairs \cup LemmaAntonymPairs(synset)
    /\ UNCHANGED <<pc, kb, lexicon, word_codes, pair_order, valence_fixes, fix_index,
                   override_index>>
    /\ UNCHANGED validateVars
    /\ UNCHANGED callVars

\* cursor.executemany("INSERT OR IGNORE INTO lexicon ...", entries); commit
InsertEntries ==
    /\ pc = "process"
    /\ synset_index = NumSynsets(kb)
    /\ lexicon' = InsertMany(lexicon, entries, 1)
    /\ pc' = "read"
    /\ UNCHANGED <<kb, synset_index, superclass_counters, entries, antonym_pairs,
                   word_codes, pair_order, valence_fixes, fix_index, override_index>>
    /\ UNCHANGED validateVars
    /\ UNCHANGED callVars

\* SELECT word, code FROM lexicon, grouped into word_codes.  The statement
\* has no ORDER BY: the rows come back in an order SQL leaves open.
ReadWordCodes ==
    /\ pc = "read"
    /\ \E wc \in WordCodeReadings(lexicon, WordsOf(lexicon)) : word_codes' = wc
    /\ pc' = "pairs"
    /\ UNCHANGED <<kb, synset_index, superclass_counters, entries, antonym_pairs,
                   lexicon, pair_order, valence_fixes, fix_index, override_index>>
    /\ UNCHANGED validateVars
    /\ UNCHANGED callVars

\* `for word1, word2 in antonym_pairs`: a set of tuples of str is iterated in
\* an order that depends on the process's string hash seed
ComputeFixes ==
    /\ pc = "pairs"
    /\ \E order \in Orderings(antonym_pairs) :
          /\ pair_order' = order
          /\ valence_fixes' = AllFixes(word_codes, order, 1)
    /\ pc' = "apply"
    /\ UNCHANGED <<kb, synset_index, superclass_counters, entries, antonym_pairs,
                   lexicon, word_codes, fix_index, override_index>>
    /\ UNCHANGED validateVars
    /\ UNCHANGED callVars

\* one iteration of `for new_code, word, old_code in valence_fixes`
ApplyFix ==
    /\ pc = "apply"
    /\ fix_index < Len(valence_fixes)
    /\ LET fix == valence_fixes[fix_index + 1]
       IN  IF UpdateConflicts(lexicon, fix.new_code, fix.word, fix.old_code)
           THEN pc' = "crashed" /\ UNCHANGED lexicon
           ELSE /\ lexicon' = UpdateCode(lexicon, fix.new_code, fix.word,
                                         fix.old_code)
                /\ pc' = pc
    /\ fix_index' = fix_index + 1
    /\ UNCHANGED <<kb, synset_index, superclass_counters, entries, antonym_pairs,
                   word_codes, pair_order, valence_fixes, override_index>>
    /\ UNCHANGED validateVars
    /\ UNCHANGED callVars

\* conn.commit() after the last fix
CommitFixes ==
    /\ pc = "apply"
    /\ fix_index = Len(valence_fixes)
    /\ pc' = "override"
    /\ UNCHANGED <<kb, lexicon>>
    /\ UNCHANGED buildVars
    /\ UNCHANGED validateVars
    /\ UNCHANGED callVars

\* the updates of one VALENCE_OVERRIDES item, over the codes k.. selected for
\* its word; <<table, crashed>>
RECURSIVE OverrideCodes(_, _, _, _, _)
OverrideCodes(table, codes, word, correct_valence, k) ==
    IF k > Len(codes) THEN <<table, FALSE>>
    ELSE LET old_code == codes[k]
             new_code == WithValence(old_code, correct_valence)
         IN  IF int(split(old_code, "-")[5]) # correct_valence
             THEN IF UpdateConflicts(table, new_code, word, old_code)
                  THEN <<table, TRUE>>
                  ELSE OverrideCodes(UpdateCode(table, new_code, word, old_code),
                                     codes, word, correct_valence, k + 1)
             ELSE OverrideCodes(table, codes, word, correct_valence, k + 1)

\* one iteration of `for word, correct_valence in VALENCE_OVERRIDES.items()`
ApplyOverride ==
    /\ pc = "override"
    /\ override_index < Len(VALENCE_OVERRIDES)
    /\ LET word == VALENCE_OVERRIDES[override_index + 1][1]
           correct_valence == VALENCE_OVERRIDES[override_index + 1][2]
           done == OverrideCodes(lexicon, CodesOf(lexicon, word), word,
                                 correct_valence, 1)
       IN  /\ lexicon' = done[1]
           /\ pc' = IF done[2] THEN "crashed" ELSE pc
    /\ override_index' = override_index + 1
    /\ UNCHANGED <<kb, synset_index, superclass_counters, entries, antonym_pairs,
                   word_codes, pair_order, valence_fixes, fix_index>>
    /\ UNCHANGED validateVars
    /\ UNCHANGED callVars

\* conn.commit() after the last override: the build is complete
FinishBuild ==
    /\ pc = "override"
    /\ override_index = Len(VALENCE_OVERRIDES)
    /\ pc' = "done"
    /\ UNCHANGED <<kb, lexicon>>
    /\ UNCHANGED buildVars
    /\ UNCHANGED validateVars
    /\ UNCHANGED callVars

(***************************************************************************)
(* validate_lexicon: the checks.  Each returns <<passed, issues>>.         *)
(***************************************************************************)
\* GroupedByWord without GROUP BY: one result row per row of the table
GroupedByWord_Ungrouped(table) ==
    [i \in DOMAIN table |-> [word |-> table[i].word, codes |-> table[i].code]]

\* SELECT word, GROUP_CONCAT(code, '|') FROM lexicon GROUP BY word ORDER BY word
GroupedByWord(table) ==
    LET words == SortedStrings(WordsOf(table))
    IN  [i \in DOMAIN words |->
            [word |-> words[i], codes |-> join(CodesOf(table, words[i]), "|")]]

\* the loop of check_determinism over rows k.., with word_codes = seen
RECURSIVE DeterminismIssues(_, _, _)
DeterminismIssues(rows, seen, k) ==
    IF k > Len(rows) THEN <<>>
    ELSE LET word == rows[k].word
             codes == rows[k].codes
         IN  IF word \in DOMAIN seen
             THEN (IF seen[word] # codes
                   THEN <<[issue |-> "Non-deterministic", what |-> word]>>
                   ELSE <<>>)
                  \o DeterminismIssues(rows, seen, k + 1)
             ELSE DeterminismIssues(
                      rows,
                      [w \in DOMAIN seen \cup {word} |->
                          IF w = word THEN codes ELSE seen[w]],
                      k + 1)

check_determinism(table) ==
    LET issues == DeterminismIssues(GroupedByWord(table), <<>>, 1)
    IN  IF Len(issues) > 0 THEN <<FALSE, issues>> ELSE <<TRUE, <<>>>>

\* the codes of the rows of the table in the order of the index of
\* PRIMARY KEY (word, code): the words ascending, the codes of a word ascending
RECURSIVE IndexCodes(_, _)
IndexCodes(table, words) ==
    IF Len(words) = 0 THEN <<>>
    ELSE CodesOf(table, Head(words)) \o IndexCodes(table, Tail(words))

\* the first occurrences of the elements of codes, from position k on
RECURSIVE FirstOccurrences(_, _)
FirstOccurrences(codes, k) ==
    IF k > Len(codes) THEN <<>>
    ELSE (IF \E j \in 1..(k - 1) : codes[j] = codes[k]
          THEN <<>> ELSE <<codes[k]>>)
         \o FirstOccurrences(codes, k + 1)

\* SELECT DISTINCT code FROM lexicon: no ORDER BY; sqlite3 scans the index of
\* PRIMARY KEY (word, code) and keeps the first occurrence of each code
DistinctCodes(table) ==
    FirstOccurrences(IndexCodes(table, SortedStrings(WordsOf(table))), 1)

\* check_code_validity with the test of `issues` inverted
check_code_validity_Inverted(table) ==
    LET codes == DistinctCodes(table)
        bad == SelectSeq(codes, LAMBDA c : ~validate_code_format(c))
        issues == [i \in DOMAIN bad |-> [issue |-> "Invalid format", what |-> bad[i]]]
    IN  IF Len(issues) > 0 THEN <<TRUE, <<>>>> ELSE <<FALSE, issues>>

check_code_validity(table) ==
    LET codes == DistinctCodes(table)
        bad == SelectSeq(codes, LAMBDA c : ~validate_code_format(c))
        issues == [i \in DOMAIN bad |-> [issue |-> "Invalid format", what |-> bad[i]]]
    IN  IF Len(issues) > 0 THEN <<FALSE, issues>> ELSE <<TRUE, <<>>>>

check_pos_distribution(table) == <<TRUE, <<>>>>
check_superclass_distribution(table) == <<TRUE, <<>>>>
check_polysemy(table) == <<TRUE, <<>>>>

\* test_words of check_sample_lookups
ProbeWords ==
    << <<"r", "u", "n">>,
       <<"h", "a", "p", "p", "y">>,
       <<"t", "r", "e", "e">>,
       <<"t", "h", "i", "n", "k">>,
       <<"b", "e", "a", "u", "t", "i", "f", "u", "l">>,
       <<"l", "o", "v", "e">>,
       <<"c", "o", "m", "p", "u", "t", "e", "r">>,
       <<"m", "u", "s", "i", "c">>,
       <<"q", "u", "i", "c", "k", "l", "y">>,
       <<"d", "o", "g">>,
       <<"h", "o", "u", "s", "e">>,
       <<"i", "d", "e", "a">> >>

\* the local `issues` list of check_sample_lookups
SampleIssues(table) ==
    LET missing == SelectSeq(ProbeWords, LAMBDA w : Len(CodesOf(table, w)) = 0)
    IN  [i \in DOMAIN missing |-> [issue |-> "Word not found", what |-> missing[i]]]

\* the local issues are printed, never returned
check_sample_lookups(table) == <<TRUE, <<>>>>

NumChecks == 6

\* checks[k](conn)
RunCheck(k, table) ==
    CASE k = 1 -> check_determinism(table)
      [] k = 2 -> check_code_validity(table)
      [] k = 3 -> check_pos_distribution(table)
      [] k = 4 -> check_superclass_distribution(table)
      [] k = 5 -> check_polysemy(table)
      [] k = 6 -> check_sample_lookups(table)

\* if not LEXICON_PATH.exists(): ...; sys.exit(1)
ExitMissing ==
    /\ pc = "validate"
    /\ ~lexicon_exists
    /\ exit_code' = 1
    /\ pc' = "exited"
    /\ UNCHANGED <<kb, lexicon, lexicon_exists, check_index, check_passed,
                   all_passed, all_issues>>
    /\ UNCHANGED buildVars
    /\ UNCHANGED callVars

\* one iteration of `for check in checks`
RunNextCheck ==
    /\ pc = "validate"
    /\ lexicon_exists
    /\ check_index < NumChecks
    /\ LET result == RunCheck(check_index + 1, lexicon)
           passed == result[1]
           issues == result[2]
       IN  /\ check_passed' = Append(check_passed, passed)
           /\ all_passed' = IF ~passed THEN FALSE ELSE all_passed
           /\ all_issues' = IF ~passed THEN all_issues \o issues ELSE all_issues
    /\ check_index' = check_index + 1
    /\ UNCHANGED <<pc, kb, lexicon, lexicon_exists, exit_code>>
    /\ UNCHANGED buildVars
    /\ UNCHANGED callVars

\* return 0 if all_passed else 1
ReturnValidation ==
    /\ pc = "validate"
    /\ lexicon_exists
    /\ check_index = NumChecks
    /\ exit_code' = IF all_passed THEN 0 ELSE 1
    /\ pc' = "validated"
    /\ UNCHANGED <<kb, lexicon, lexicon_exists, check_index, check_passed,
                   all_passed, all_issues>>
    /\ UNCHANGED buildVars
    /\ UNCHANGED callVars

(***************************************************************************)
(* Single calls of the pure functions.                                     *)
(***************************************************************************)
CallValence ==
    /\ pc = "call"
    /\ call.fn = "get_valence_sentiwordnet"
    /\ ret = None
    /\ ret' = <<get_valence_sentiwordnet(call.synset)>>
    /\ UNCHANGED <<pc, kb, lexicon, call>>
    /\ UNCHANGED buildVars
    /\ UNCHANGED validateVars

CallSuperclass ==
    /\ pc = "call"
    /\ call.fn = "get_superclass_code"
    /\ ret = None
    /\ ret' = <<get_superclass_code(call.synset)>>
    /\ UNCHANGED <<pc, kb, lexicon, call>>
    /\ UNCHANGED buildVars
    /\ UNCHANGED validateVars

CallAbstractness ==
    /\ pc = "call"
    /\ call.fn = "get_abstractness"
    /\ ret = None
    /\ ret' = <<get_abstractness(call.synset)>>
    /\ UNCHANGED <<pc, kb, lexicon, call>>
    /\ UNCHANGED buildVars
    /\ UNCHANGED validateVars

\* the priorities of two senses of one word
CallPriority ==
    /\ pc = "call"
    /\ call.fn = "priority"
    /\ ret = None
    /\ ret' = [k \in DOMAIN call.senses |->
                  Priority(call.senses[k].lemma_freq, call.senses[k].superclass,
                           call.senses[k].lemma_idx)]
    /\ UNCHANGED <<pc, kb, lexicon, call>>
    /\ UNCHANGED buildVars
    /\ UNCHANGED validateVars

(***************************************************************************)
(* The knowledge bases explored.                                           *)
(***************************************************************************)
A == <<"a">>
B == <<"b">>
C == <<"c">>
Fired == <<"f", "i", "r", "e", "d">>
Good == <<"g", "o", "o", "d">>

FeelingPath == <<"entity.n.01", "abstraction.n.06", "feeling.n.01">>

\* lemma.antonyms() by lemma name, in each of the antonym relations explored
AntonymRelations ==
    { [x \in {A} |-> <<<<"B">>, C>>],
      [x \in {A, B} |-> IF x = A THEN <<B>> ELSE <<C>>],
      [x \in {A, C} |-> IF x = A THEN <<Fired, <<"1">>>> ELSE <<Good>>],
      [x \in {A} |-> <<B, Fired>>] }

AntonymsIn(rel, name) == IF name \in DOMAIN rel THEN rel[name] ELSE <<>>

\* the synsets a knowledge base is drawn from, under antonym relation rel
NeutralA(rel) == Synset("n", <<>>, 0, 0, <<Lemma(A, 3, AntonymsIn(rel, A))>>)
NegativeA(rel) ==
    Synset("n", <<FeelingPath>>, 0, 40,
           <<Lemma(<<"A">>, 0, <<>>), Lemma(A, 7, AntonymsIn(rel, A))>>)
PositiveB(rel) ==
    Synset("n", <<FeelingPath>>, 50, 0, <<Lemma(B, 5, AntonymsIn(rel, B))>>)
NeutralB(rel) ==
    Synset("s", <<>>, 0, 0,
           <<Lemma(B, 50, AntonymsIn(rel, B)), Lemma(<<"b", "1">>, 1, <<>>),
             Lemma(<<"B", "_", "b", "-", "b">>, 2, <<>>)>>)
NegativeC(rel) == Synset("v", <<>>, 5, 40, <<Lemma(C, 2, AntonymsIn(rel, C))>>)
PositiveFired ==
    Synset("n", <<<<"entity.n.01", "layoff.n.01">>>>, 40, 5,
           <<Lemma(Fired, 4, <<>>)>>)
NeutralGood == Synset("a", <<>>, 0, 0, <<Lemma(<<"G", "o", "o", "d">>, 9, <<>>)>>)

SynsetChoices(rel) ==
    {NeutralA(rel), NegativeA(rel), PositiveB(rel), NeutralB(rel),
     NegativeC(rel), PositiveFired, NeutralGood}

MaxSynsets == 3

RECURSIVE SeqsOf(_, _)
SeqsOf(S, n) ==
    IF n = 0 THEN {<<>>}
    ELSE {Append(q, x) : q \in SeqsOf(S, n - 1), x \in S}

KnowledgeBases ==
    UNION {SeqsOf(SynsetChoices(rel), MaxSynsets) : rel \in AntonymRelations}

\* run_validation has not returned
NotReturned == -1

IdleValidate ==
    /\ check_index = 0
    /\ check_passed = <<>>
    /\ all_passed = TRUE
    /\ all_issues = <<>>
    /\ exit_code = NotReturned

NoCall == [fn |-> "none"]

IdleCall == call = NoCall /\ ret = None

StartBuild ==
    /\ pc = "process"
    /\ synset_index = 0
    /\ superclass_counters = <<>>
    /\ entries = <<>>
    /\ antonym_pairs = {}
    /\ lexicon = <<>>
    /\ lexicon_exists = TRUE
    /\ word_codes = <<>>
    /\ pair_order = <<>>
    /\ valence_fixes = <<>>
    /\ fix_index = 0
    /\ override_index = 0

Init ==
    /\ \E rest \in KnowledgeBases : kb = [fill |-> 0, rest |-> rest]
    /\ StartBuild
    /\ IdleValidate
    /\ IdleCall

Next ==
    \/ ProcessSynset
    \/ InsertEntries
    \/ ReadWordCodes
    \/ ComputeFixes
    \/ ApplyFix
    \/ CommitFixes
    \/ ApplyOverride
    \/ FinishBuild

Spec == Init /\ [][Next]_vars

\* a knowledge base in which LongFill + 1 synsets resolve to superclass 0999
LongFill == 99999

ChainRelation == [x \in {A, B} |-> IF x = A THEN <<B>> ELSE <<C>>]

InitLong ==
    /\ kb = [fill |-> LongFill,
             rest |-> <<NeutralA(ChainRelation), PositiveB(ChainRelation),
                        PositiveFired>>]
    /\ StartBuild
    /\ IdleValidate
    /\ IdleCall

SpecLong == InitLong /\ [][Next]_vars

(***************************************************************************)
(* The validator on its own, over the tables a lexicon.db can hold.        *)
(***************************************************************************)
Run == <<"r", "u", "n">>

CodeChoices ==
    { <<"0", "1", "2", "0", "-", "0", "0", "0", "0", "1", "-", "1", "-", "2", "-", "0">>,
      <<"2", "9", "9", "9", "-", "0", "0", "0", "0", "1", "-", "2", "-", "1", "-", "2">>,
      <<"0", "9", "9", "9", "-", "1", "0", "0", "0", "0", "0", "-", "1", "-", "1", "-", "0">>,
      <<"0", "1", "2", "0", "-", "0", "0", "0", "0", "1", "-", "1", "-", "2", "-", "3">> }

RowChoices ==
    {[word |-> w, code |-> c, priority |-> 0] : w \in {A, Run}, c \in CodeChoices}

MaxRows == 2

\* the tables of at most n rows with no (word, code) twice
Tables(n) ==
    {t \in UNION {SeqsOf(RowChoices, k) : k \in 0..n} :
        \A i, j \in DOMAIN t :
            t[i].word = t[j].word /\ t[i].code = t[j].code => i = j}

IdleBuild ==
    /\ kb = [fill |-> 0, rest |-> <<>>]
    /\ synset_index = 0
    /\ superclass_counters = <<>>
    /\ entries = <<>>
    /\ antonym_pairs = {}
    /\ word_codes = <<>>
    /\ pair_order = <<>>
    /\ valence_fixes = <<>>
    /\ fix_index = 0
    /\ override_index = 0

\* run_validation starts with lexicon.db holding some table, or with no
\* lexicon.db at all
InitValidate ==
    /\ pc = "validate"
    /\ \/ lexicon_exists = TRUE /\ lexicon \in Tables(MaxRows)
       \/ lexicon_exists = FALSE /\ lexicon = <<>>
    /\ IdleBuild
    /\ IdleValidate
    /\ IdleCall

NextValidate ==
    \/ ExitMissing
    \/ RunNextCheck
    \/ ReturnValidation

SpecValidate == InitValidate /\ [][NextValidate]_vars

(***************************************************************************)
(* The pure functions on their own, over bounded arguments.                *)
(***************************************************************************)
Scores == {0, 5, 9, 10, 11, 24, 25, 40, 100}

ValenceCalls ==
    {[fn |-> "get_valence_sentiwordnet",
      synset |-> [Synset("n", <<>>, p, n, <<>>) EXCEPT !.senti_ok = ok]] :
        p \in Scores, n \in Scores, ok \in BOOLEAN}

AncestorNames == {"entity.n.01", "feeling.n.01", "object.n.01", "thing.n.08"}
\* the values of synset.pos()
PosTags == {"n", "v", "a", "s", "r"}

MaxPathLen == 2

PathChoices == UNION {SeqsOf(AncestorNames, n) : n \in 0..MaxPathLen}

PathListChoices ==
    {<<>>} \cup {<<p>> : p \in PathChoices}
           \cup {<<p, q>> : p \in PathChoices, q \in PathChoices}

SuperclassCalls ==
    {[fn |-> "get_superclass_code", synset |-> Synset(pos, paths, 0, 0, <<>>)] :
        pos \in PosTags, paths \in PathListChoices}
    \cup
    {[fn |-> "get_superclass_code",
      synset |-> [Synset(pos, <<>>, 0, 0, <<>>) EXCEPT !.paths_ok = FALSE]] :
        pos \in PosTags}

AbstractnessCalls ==
    {[c EXCEPT !.fn = "get_abstractness"] : c \in SuperclassCalls}

MaxLemmaIdx == 11

Frequencies == {0, 5, 50}

SenseChoices ==
    [lemma_freq : Frequencies,
     superclass : {SUPERCLASS_ROOTS["feeling.n.01"], SUPERCLASS_ROOTS["layoff.n.01"],
                   <<"0", "9", "9", "9">>, <<"3", "9", "9", "9">>},
     lemma_idx : 0..MaxLemmaIdx]

PriorityCalls ==
    {[fn |-> "priority", senses |-> <<s1, s2>>] :
        s1 \in SenseChoices, s2 \in SenseChoices}

InitPure ==
    /\ pc = "call"
    /\ call \in ValenceCalls \cup SuperclassCalls \cup AbstractnessCalls
                \cup PriorityCalls
    /\ ret = None
    /\ lexicon = <<>>
    /\ lexicon_exists = FALSE
    /\ IdleBuild
    /\ IdleValidate

NextPure ==
    \/ CallValence
    \/ CallSuperclass
    \/ CallAbstractness
    \/ CallPriority

SpecPure == InitPure /\ [][NextPure]_vars

(***************************************************************************)
(* Properties.  The valence digit of a stored code is read here as the     *)
(* last character of the code.                                             *)
(***************************************************************************)
LastChar(code) == code[Len(code)]

ButLast(code) == SubSeq(code, 1, Len(code) - 1)

Rows(table) == {table[i] : i \in DOMAIN table}

AfterBulkInsert == pc \in {"read", "pairs", "apply", "override", "done"}

AfterPropagation == pc \in {"override", "done"}

\* C1.  After a full build every code stored for a word of the override
\* table carries the override's valence digit, whatever the lexical scores
\* and the antonym pairs of the word; in particular every code of 'fired'
\* carries 2.
C1_OverridePrecedence ==
    pc = "done" =>
        \A i \in DOMAIN lexicon :
            /\ lexicon[i].word \in OverrideWords =>
                   <<LastChar(lexicon[i].code)>> = str(OverrideOf(lexicon[i].word))
            /\ lexicon[i].word = Fired => LastChar(lexicon[i].code) = "2"

\* a finished build that stored 'fired', whose sense scores positive and
\* which is an antonym of the stored neutral word 'a'
C1_Witness ==
    /\ pc = "done"
    /\ \E i \in DOMAIN kb.rest :
          /\ kb.rest[i] = PositiveFired
          /\ get_valence_sentiwordnet(kb.rest[i]) = 1
    /\ <<A, Fired>> \in antonym_pairs
    /\ \E i \in DOMAIN lexicon : lexicon[i].word = Fired
    /\ \E i \in DOMAIN lexicon : lexicon[i].word = A /\ LastChar(lexicon[i].code) = "0"

\* a second build of the snapshot held in `entries` and `antonym_pairs`, to
\* which the read returned the same word_codes: the pairs iterated in one
\* fixed order
RECURSIVE ApplyFixes(_, _, _)
ApplyFixes(table, fixes, k) ==
    IF k > Len(fixes) THEN table
    ELSE ApplyFixes(UpdateCode(table, fixes[k].new_code, fixes[k].word,
                               fixes[k].old_code), fixes, k + 1)

RECURSIVE ApplyOverrides(_, _)
ApplyOverrides(table, k) ==
    IF k > Len(VALENCE_OVERRIDES) THEN table
    ELSE ApplyOverrides(
             OverrideCodes(table, CodesOf(table, VALENCE_OVERRIDES[k][1]),
                           VALENCE_OVERRIDES[k][1], VALENCE_OVERRIDES[k][2], 1)[1],
             k + 1)

SecondBuild ==
    LET bulk == InsertMany(<<>>, entries, 1)
        order == CHOOSE o \in Orderings(antonym_pairs) : TRUE
    IN  ApplyOverrides(ApplyFixes(bulk, AllFixes(word_codes, order, 1), 1), 1)

\* C2.  Two builds over the same knowledge-base snapshot produce the same
\* set of (word, code, priority) rows, whatever the order in which the
\* antonym pairs are iterated and the codes of a word are read back.
C2_Determinism == pc = "done" => Rows(lexicon) = Rows(SecondBuild)

\* C3.  Every code stored in the lexicon matches
\* ^\d{4}-\d{5}-[1-4]-[0-2]-[0-2]$, after the bulk insert and after the
\* antonym and override updates, whatever the number of concepts that
\* resolve to one superclass.
C3_FormatInvariant ==
    AfterBulkInsert =>
        \A i \in DOMAIN lexicon : validate_code_format(lexicon[i].code)

\* the valence the pass reads for a word: that of its first-listed code
ListedValence(word) == LastChar(word_codes[word][1])

Opposite(digit) == IF digit = "1" THEN "2" ELSE "1"

\* the pairs the pass acts on: both words stored, neither override-protected
EligiblePair(w1, w2) ==
    /\ <<w1, w2>> \in antonym_pairs
    /\ w1 \in DOMAIN word_codes /\ w2 \in DOMAIN word_codes
    /\ w1 \notin OverrideWords /\ w2 \notin OverrideWords

\* every code of word a that was neutral before the pass now carries digit
WasNeutralNowCarries(a, digit) ==
    \A k \in DOMAIN word_codes[a] :
        LastChar(word_codes[a][k]) = "0" =>
            /\ HasKey(lexicon, a, ButLast(word_codes[a][k]) \o <<digit>>)
            /\ ~HasKey(lexicon, a, word_codes[a][k])

\* C4 as stated.  For every eligible pair (A, B) with every code of A
\* neutral and every code of B of one non-neutral valence v before the
\* pass, every code of A carries the opposite of v after the pass, also
\* when A has further antonyms.
C4_Original ==
    AfterPropagation =>
        \A p \in antonym_pairs :
            ( /\ EligiblePair(p[1], p[2])
              /\ \A k \in DOMAIN word_codes[p[1]] :
                    LastChar(word_codes[p[1]][k]) = "0"
              /\ ListedValence(p[2]) # "0"
              /\ \A k \in DOMAIN word_codes[p[2]] :
                    LastChar(word_codes[p[2]][k]) = ListedValence(p[2]) )
            => WasNeutralNowCarries(p[1], Opposite(ListedValence(p[2])))

\* the other word of pair p
Partner(p, a) == IF p[1] = a THEN p[2] ELSE p[1]

\* pair p makes the pass fix word a: the pair is eligible, a is one of its
\* words and is listed neutral, the other word is listed non-neutral
ActsOn(p, a) ==
    /\ EligiblePair(p[1], p[2])
    /\ a \in {p[1], p[2]}
    /\ ListedValence(a) = "0"
    /\ ListedValence(Partner(p, a)) # "0"

\* the position in the iteration of the first pair that acts on word a
FirstActing(a) ==
    CHOOSE k \in DOMAIN pair_order :
        /\ ActsOn(pair_order[k], a)
        /\ \A j \in 1..(k - 1) : ~ActsOn(pair_order[j], a)

\* C4, amended.  For every eligible pair (A, B) such that before the pass
\* the first-listed code of A is neutral and the first-listed code of B has
\* a non-neutral valence v: after the pass every code of A that was neutral
\* carries one and the same digit, the opposite of the listed valence of A's
\* partner in the first pair of the iteration that is eligible and joins A
\* to a word listed non-neutral (pairs with an override word or a word not
\* stored are passed over); it is the opposite of v when all such partners
\* of A have listed valence v.
C4_PropagationToNeutral ==
    AfterPropagation =>
        \A p \in antonym_pairs : \A a \in {p[1], p[2]} :
            ActsOn(p, a) =>
                /\ \E k \in DOMAIN pair_order : ActsOn(pair_order[k], a)
                /\ WasNeutralNowCarries(
                       a, Opposite(ListedValence(
                              Partner(pair_order[FirstActing(a)], a))))
                /\ (\A q \in antonym_pairs :
                        ActsOn(q, a) => ListedValence(Partner(q, a))
                                          = ListedValence(Partner(p, a)))
                   => WasNeutralNowCarries(
                          a, Opposite(ListedValence(Partner(p, a))))

\* after the pass: the neutral word 'a' has the positive antonym 'b' and the
\* negative antonym 'c'; a pair with 'c' was visited first, a pair with 'b'
\* later, and every code of 'a' carries 1, the opposite of the valence of 'c'
C4_Witness ==
    /\ AfterPropagation
    /\ EligiblePair(A, B) /\ EligiblePair(A, C)
    /\ ListedValence(A) = "0" /\ ListedValence(B) = "1" /\ ListedValence(C) = "2"
    /\ Partner(pair_order[FirstActing(A)], A) = C
    /\ \E k \in DOMAIN pair_order :
          k > FirstActing(A) /\ Partner(pair_order[k], A) = B
    /\ fix_index > 0
    /\ \A i \in DOMAIN lexicon : lexicon[i].word = A => LastChar(lexicon[i].code) = "1"

\* C5.  A step of the antonym-propagation pass changes only rows whose
\* valence digit is 0, and only to digit 1 or 2, leaving the rest of the
\* row as it was; it changes no row of a word whose listed valence is
\* non-neutral, so a pair of two non-neutral words changes neither.
C5_OnlyNeutralFlips ==
    [][pc = "apply" =>
          /\ Len(lexicon') = Len(lexicon)
          /\ \A i \in DOMAIN lexicon :
                lexicon'[i] # lexicon[i] =>
                    /\ LastChar(lexicon[i].code) = "0"
                    /\ LastChar(lexicon'[i].code) \in {"1", "2"}
                    /\ ButLast(lexicon'[i].code) = ButLast(lexicon[i].code)
                    /\ lexicon'[i].word = lexicon[i].word
                    /\ ListedValence(lexicon[i].word) = "0"]_vars

\* the pass has rewritten the neutral 'a' because of its antonym 'b', and has
\* left alone the two non-neutral antonyms 'b' and 'c'
C5_Witness ==
    /\ pc = "apply" /\ fix_index = Len(valence_fixes) /\ fix_index > 0
    /\ EligiblePair(B, C)
    /\ ListedValence(B) = "1" /\ ListedValence(C) = "2"
    /\ EligiblePair(A, B) /\ ListedValence(A) = "0"
    /\ \A i \in DOMAIN lexicon :
          /\ lexicon[i].word = A => LastChar(lexicon[i].code) = "2"
          /\ lexicon[i].word = B => LastChar(lexicon[i].code) = "1"
          /\ lexicon[i].word = C => LastChar(lexicon[i].code) = "2"

\* C6.  Superclass resolution is first-path-wins: the code returned is that
\* of a match of the first hypernym path that holds any match, also when a
\* later path holds a match nearer to the concept's end of the path.
PathMatches(path) ==
    {SUPERCLASS_ROOTS[path[i]] : i \in {x \in DOMAIN path :
                                           path[x] \in DOMAIN SUPERCLASS_ROOTS}}

C6_FirstPathWins ==
    (call.fn = "get_superclass_code" /\ ret # None /\ call.synset.paths_ok) =>
        \A k \in DOMAIN call.synset.paths :
            ( /\ PathMatches(call.synset.paths[k]) # {}
              /\ \A j \in 1..(k - 1) : PathMatches(call.synset.paths[j]) = {} )
            => ret[1] \in PathMatches(call.synset.paths[k])

\* the first path matches one before its end, the second path matches at
\* its very end, on another superclass: the first path's code is returned
C6_Witness ==
    /\ call.fn = "get_superclass_code" /\ ret # None
    /\ call.synset.paths = << <<"feeling.n.01", "thing.n.08">>,
                               <<"thing.n.08", "object.n.01">> >>
    /\ ret[1] = SUPERCLASS_ROOTS["feeling.n.01"]

\* C7 as stated.  The lexical stage returns 1 whenever pos_score is strictly
\* larger than neg_score, 2 whenever neg_score is strictly larger, and 0
\* exactly on a tie: the 0.25 and 0.1 thresholds have no effect.
C7_Original ==
    (call.fn = "get_valence_sentiwordnet" /\ ret # None /\ call.synset.senti_ok) =>
        /\ call.synset.pos_score > call.synset.neg_score => ret[1] = 1
        /\ call.synset.neg_score > call.synset.pos_score => ret[1] = 2
        /\ ret[1] = 0 <=> call.synset.pos_score = call.synset.neg_score

\* C7, amended.  The lexical stage returns 1 whenever pos_score is strictly
\* larger than neg_score and at least 0.1, 2 whenever neg_score is strictly
\* larger than pos_score and at least 0.1, and 0 otherwise (a tie, or a
\* larger score below 0.1): the 0.25 threshold has no effect, the 0.1
\* threshold has.
C7_LexicalValence ==
    (call.fn = "get_valence_sentiwordnet" /\ ret # None /\ call.synset.senti_ok) =>
        LET pos_score == call.synset.pos_score
            neg_score == call.synset.neg_score
        IN  /\ (pos_score > neg_score /\ pos_score >= 10) => ret[1] = 1
            /\ (neg_score > pos_score /\ neg_score >= 10) => ret[1] = 2
            /\ ( \/ pos_score = neg_score
                 \/ (pos_score < 10 /\ neg_score < 10) ) => ret[1] = 0
            /\ ret[1] \in {0, 1, 2}

\* pos_score 0.05 against neg_score 0: the larger score is below 0.1, the
\* call has returned neutral
C7_Witness ==
    /\ call.fn = "get_valence_sentiwordnet" /\ ret = <<0>>
    /\ call.synset.senti_ok
    /\ call.synset.pos_score = 5 /\ call.synset.neg_score = 0

\* C8.  At every point of the build the lexicon holds no two rows with one
\* (word, code), and no update is refused for rewriting a row onto a key
\* that is already present.
C8_UniqueKey ==
    /\ pc # "crashed"
    /\ \A i, j \in DOMAIN lexicon :
          (lexicon[i].word = lexicon[j].word /\ lexicon[i].code = lexicon[j].code)
          => i = j

\* a finished build whose entries repeated a (word, code) and whose antonym
\* pass rewrote a row
C8_Witness ==
    /\ pc = "done"
    /\ \E i, j \in DOMAIN entries :
          i # j /\ entries[i].word = entries[j].word
                /\ entries[i].code = entries[j].code
    /\ fix_index > 0
    /\ Rows(lexicon) # Rows(InsertMany(<<>>, entries, 1))

\* C9.  run_validation returns 0 exactly when all six checks passed, so it
\* returns 1 whenever a stored code fails the format pattern or the
\* determinism check fails; the POS, superclass, polysemy and sample-lookup
\* checks pass whatever the table holds and whichever probe words are
\* missing.
C9_ValidationResult ==
    /\ \A k \in DOMAIN check_passed : k >= 3 => check_passed[k]
    /\ pc = "validated" =>
          /\ Len(check_passed) = NumChecks
          /\ exit_code = (IF \A k \in DOMAIN check_passed : check_passed[k]
                          THEN 0 ELSE 1)
          /\ (\E i \in DOMAIN lexicon : ~validate_code_format(lexicon[i].code))
                => exit_code = 1
          /\ ~check_passed[1] => exit_code = 1
          /\ ( /\ \A i \in DOMAIN lexicon : validate_code_format(lexicon[i].code)
               /\ check_passed[1] ) => exit_code = 0

\* a validation that returned 1 on a table with a six-digit local sequence
\* and a valid code, probe words missing
C9_Witness ==
    /\ pc = "validated" /\ exit_code = 1
    /\ \E i \in DOMAIN lexicon : ~validate_code_format(lexicon[i].code)
    /\ \E i \in DOMAIN lexicon : validate_code_format(lexicon[i].code)
    /\ Len(SampleIssues(lexicon)) > 0
    /\ Len(all_issues) = 1

\* C10.  Of two senses of one word with specific superclasses and corpus
\* frequencies 5 and 50, the 50-frequency sense has the strictly higher
\* priority, whatever the positions of the word in the two lemma lists.
IsSpecific(superclass) ==
    \E x \in DOMAIN SUPERCLASS_ROOTS : SUPERCLASS_ROOTS[x] = superclass

C10_PriorityOrdering ==
    ( /\ call.fn = "priority" /\ ret # None
      /\ IsSpecific(call.senses[1].superclass)
      /\ IsSpecific(call.senses[2].superclass)
      /\ call.senses[1].lemma_freq = 5
      /\ call.senses[2].lemma_freq = 50 )
    => ret[2] > ret[1]

\* the 5-frequency sense lists the word first, the 50-frequency sense lists
\* it eleventh: 10015 against 10050
C10_Witness ==
    /\ call.fn = "priority" /\ ret = <<10015, 10050>>
    /\ call.senses[1] = [lemma_freq |-> 5, lemma_idx |-> 0,
                          superclass |-> SUPERCLASS_ROOTS["feeling.n.01"]]
    /\ call.senses[2] = [lemma_freq |-> 50, lemma_idx |-> 10,
                          superclass |-> SUPERCLASS_ROOTS["layoff.n.01"]]

\* the positions of a path that hold a key of SUPERCLASS_ROOTS
MatchPositions(path) == {i \in DOMAIN path : path[i] \in DOMAIN SUPERCLASS_ROOTS}

\* path k is the first path of the call's synset that holds a match
FirstMatchingPath(k) ==
    /\ k \in DOMAIN call.synset.paths
    /\ MatchPositions(call.synset.paths[k]) # {}
    /\ \A j \in 1..(k - 1) : MatchPositions(call.synset.paths[j]) = {}

SuperclassReturned ==
    call.fn = "get_superclass_code" /\ ret # None /\ call.synset.paths_ok

\* C11 as stated.  For a path given with the concept itself first and the
\* root last, get_superclass_code returns the code of the most specific
\* ancestor found in the table: the match nearest the start of the path,
\* the first element (the concept itself) included.
C11_Original ==
    SuperclassReturned =>
        \A k \in DOMAIN call.synset.paths :
            FirstMatchingPath(k) =>
                LET path == call.synset.paths[k]
                    first == CHOOSE i \in MatchPositions(path) :
                                 \A j \in MatchPositions(path) : i <= j
                IN  ret[1] = SUPERCLASS_ROOTS[path[first]]

\* C11, amended.  For a path given with the root first and the concept
\* itself last, get_superclass_code scans the path from its last element to
\* its first and returns the code of the match nearest the end of the path,
\* i.e. of the most specific ancestor found in the table; the last element
\* (the concept itself) counts, so a concept whose own identifier is in the
\* table resolves to its own code.
C11_MostSpecificLast ==
    SuperclassReturned =>
        \A k \in DOMAIN call.synset.paths :
            FirstMatchingPath(k) =>
                LET path == call.synset.paths[k]
                    last == CHOOSE i \in MatchPositions(path) :
                                \A j \in MatchPositions(path) : i >= j
                IN  /\ ret[1] = SUPERCLASS_ROOTS[path[last]]
                    /\ path[Len(path)] \in DOMAIN SUPERCLASS_ROOTS
                          => ret[1] = SUPERCLASS_ROOTS[path[Len(path)]]

\* the one path [feeling.n.01, object.n.01] has resolved to the code of its
\* last element, 0004, not to that of its first, 0120
C11_Witness ==
    /\ call.fn = "get_superclass_code" /\ ret # None
    /\ call.synset.paths = << <<"feeling.n.01", "object.n.01">> >>
    /\ ret[1] = SUPERCLASS_ROOTS["object.n.01"]
    /\ ret[1] # SUPERCLASS_ROOTS["feeling.n.01"]

\* the POS digit a fallback superclass stands for
FallbackPosDigit(superclass) ==
    CASE superclass = <<"0", "9", "9", "9">> -> 1
      [] superclass = <<"2", "9", "9", "9">> -> 2
      [] superclass = <<"3", "9", "9", "9">> -> 3
      [] superclass = <<"4", "9", "9", "9">> -> 4
      [] OTHER -> 0

NoTableMatch(synset) ==
    \/ ~synset.paths_ok
    \/ \A k \in DOMAIN synset.paths : \A i \in DOMAIN synset.paths[k] :
          synset.paths[k][i] \notin DOMAIN SUPERCLASS_ROOTS

\* C12.  When the concept has no hypernym path, no path holds a table
\* entry, or the traversal raises, get_superclass_code returns the fallback
\* of the concept's POS (0999 noun, 2999 verb, 3999 adjective and satellite
\* adjective, 4999 adverb), never a table code, and the fallback stands for
\* the POS digit that build_lexicon encodes in the same code.
C12_FallbackAgreesWithPos ==
    ( /\ call.fn = "get_superclass_code" /\ ret # None
      /\ NoTableMatch(call.synset) )
    => /\ FallbackPosDigit(ret[1]) # 0
       /\ ret[1] \notin SuperclassTableCodes
       /\ FallbackPosDigit(ret[1]) = PosDigit(call.synset)
       /\ call.synset.pos = "n" <=> ret[1] = <<"0", "9", "9", "9">>
       /\ call.synset.pos = "v" <=> ret[1] = <<"2", "9", "9", "9">>
       /\ call.synset.pos \in {"a", "s"} <=> ret[1] = <<"3", "9", "9", "9">>
       /\ call.synset.pos = "r" <=> ret[1] = <<"4", "9", "9", "9">>

\* a satellite adjective whose only path holds no table entry got 3999, the
\* fallback of POS digit 3
C12_Witness ==
    /\ call.fn = "get_superclass_code" /\ ret # None
    /\ call.synset.pos = "s"
    /\ call.synset.paths_ok
    /\ call.synset.paths = << <<"thing.n.08">> >>
    /\ ret[1] = <<"3", "9", "9", "9">>
    /\ PosDigit(call.synset) = 3

\* C13.  get_abstractness returns 0 iff the union of the ancestors of all
\* paths meets CONCRETE and not ABSTRACT, 2 iff it meets ABSTRACT and not
\* CONCRETE, and 1 otherwise (both, neither, or the lookup raises); the two
\* reference sets are disjoint.
C13_Abstractness ==
    /\ ABSTRACT_HYPERNYMS \cap CONCRETE_HYPERNYMS = {}
    /\ (call.fn = "get_abstractness" /\ ret # None) =>
          LET union == UNION {Range(call.synset.paths[k]) :
                                 k \in DOMAIN call.synset.paths}
              meets_abstract == \E h \in union : h \in ABSTRACT_HYPERNYMS
              meets_concrete == \E h \in union : h \in CONCRETE_HYPERNYMS
          IN  IF ~call.synset.paths_ok THEN ret[1] = 1
              ELSE /\ ret[1] = 0 <=> (meets_concrete /\ ~meets_abstract)
                   /\ ret[1] = 2 <=> (meets_abstract /\ ~meets_concrete)
                   /\ ret[1] = 1 <=> (meets_abstract <=> meets_concrete)

\* the first path holds only an abstract ancestor, the second only a
\* concrete one: the union meets both and the call has returned 1
C13_Witness ==
    /\ call.fn = "get_abstractness" /\ ret = <<1>>
    /\ call.synset.paths = << <<"feeling.n.01">>, <<"object.n.01">> >>

\* C14.  The priority of a sense is frequency + bonus + max(0, 10 -
\* ordinal position), the bonus being 10000 when the superclass is a code
\* of the table and 0 when it is a POS fallback; no code of the table ends
\* in 999 and every fallback does.
C14_PriorityFormula ==
    /\ \A c \in SuperclassTableCodes : ~endswith(c, <<"9", "9", "9">>)
    /\ \A x \in DOMAIN SUPERCLASS_ROOTS : SUPERCLASS_ROOTS[x] \in SuperclassTableCodes
    /\ \A p \in PosTags :
          endswith(_get_fallback_superclass([pos |-> p]), <<"9", "9", "9">>)
    /\ (call.fn = "priority" /\ ret # None) =>
          \A k \in DOMAIN call.senses :
              LET sense == call.senses[k]
                  bonus == IF sense.superclass \in SuperclassTableCodes
                           THEN 10000 ELSE 0
                  order == IF sense.lemma_idx < 10 THEN 10 - sense.lemma_idx
                           ELSE 0
              IN  ret[k] = sense.lemma_freq + bonus + order

\* a fallback sense at ordinal position 11 (no order bonus, no superclass
\* bonus) beside a table sense at position 0
C14_Witness ==
    /\ call.fn = "priority" /\ ret = <<50, 10015>>
    /\ call.senses[1] = [lemma_freq |-> 50, lemma_idx |-> 11,
                          superclass |-> <<"3", "9", "9", "9">>]
    /\ call.senses[2] = [lemma_freq |-> 5, lemma_idx |-> 0,
                          superclass |-> SUPERCLASS_ROOTS["layoff.n.01"]]

\* the fields HHHH and LLLLL of a code
SuperclassField(code) == split(code, "-")[1]
LocalSeqField(code) == split(code, "-")[2]

\* the number of synsets among the first n visited that resolve to superclass
Visited(superclass, n) ==
    Cardinality({j \in 1..n : get_superclass_code(SynsetAt(kb, j)) = superclass})

\* C15.  The local sequence is a per-superclass counter in visitation
\* order: the entries of the k-th visited concept of a superclass all carry
\* that superclass and local sequence k (00001 for the first), and every
\* entry made earlier for that superclass carries a smaller one.
C15_LocalSequence ==
    [][(pc = "process" /\ synset_index' = synset_index + 1) =>
          LET synset == SynsetAt(kb, synset_index')
              superclass == get_superclass_code(synset)
              k == Visited(superclass, synset_index')
              new == SubSeq(entries', Len(entries) + 1, Len(entries'))
          IN  /\ \A i \in DOMAIN new :
                    /\ SuperclassField(new[i].code) = superclass
                    /\ int(LocalSeqField(new[i].code)) = k
                    /\ k = 1 => LocalSeqField(new[i].code) = <<"0", "0", "0", "0", "1">>
              /\ \A j \in DOMAIN entries :
                    SuperclassField(entries[j].code) = superclass
                    => int(LocalSeqField(entries[j].code)) < k
              /\ Counter(superclass_counters', superclass) = k]_vars

\* three concepts visited: the first and the third resolve to 0120 and got
\* 00001 and 00002, the second resolves to 0999 and got 00001; the two
\* lemmas of the third share its prefix
C15_Witness ==
    /\ pc = "process" /\ synset_index = 3 /\ Len(entries) = 4
    /\ SuperclassField(entries[1].code) = SUPERCLASS_ROOTS["feeling.n.01"]
    /\ LocalSeqField(entries[1].code) = <<"0", "0", "0", "0", "1">>
    /\ SuperclassField(entries[2].code) = <<"0", "9", "9", "9">>
    /\ LocalSeqField(entries[2].code) = <<"0", "0", "0", "0", "1">>
    /\ \A i \in {3, 4} :
          /\ SuperclassField(entries[i].code) = SUPERCLASS_ROOTS["feeling.n.01"]
          /\ LocalSeqField(entries[i].code) = <<"0", "0", "0", "0", "2">>

\* only letters, spaces and hyphens, and not empty
LettersSpacesHyphens(word) ==
    /\ word # <<>>
    /\ \A i \in DOMAIN word :
          word[i] \in Range(LowerChars) \cup Range(UpperChars) \cup {" ", "-"}

HasLetter(word) ==
    \E i \in DOMAIN word : word[i] \in Range(LowerChars) \cup Range(UpperChars)

\* the surface forms of the lemmas of the synsets visited so far
VisitedSurfaceForms ==
    UNION {{SurfaceWord(SynsetAt(kb, j).lemmas[k].name) :
               k \in DOMAIN SynsetAt(kb, j).lemmas} : j \in 1..synset_index}

\* C16.  Every stored word is non-empty and made of letters, spaces and
\* hyphens only; a lemma whose surface form is not produces no entry, and
\* the lemmas of the visited concepts whose surface form is made of
\* letters, spaces and hyphens and holds a letter are entered and stored.
C16_CleanWords ==
    /\ \A i \in DOMAIN entries : LettersSpacesHyphens(entries[i].word)
    /\ \A i \in DOMAIN lexicon : LettersSpacesHyphens(lexicon[i].word)
    /\ pc \in {"process", "read", "pairs", "apply", "override", "done"} =>
          \A w \in VisitedSurfaceForms :
              /\ ~LettersSpacesHyphens(w) =>
                    /\ \A i \in DOMAIN entries : entries[i].word # w
                    /\ \A i \in DOMAIN lexicon : lexicon[i].word # w
              /\ (LettersSpacesHyphens(w) /\ HasLetter(w)) =>
                    /\ \E i \in DOMAIN entries : entries[i].word = w
                    /\ AfterBulkInsert => \E i \in DOMAIN lexicon : lexicon[i].word = w

\* a finished build of a concept with the lemmas b, b1 and B_b-b: 'b' and
\* 'b b-b' are stored, 'b1' is not
C16_Witness ==
    /\ pc = "done"
    /\ <<"b", "1">> \in VisitedSurfaceForms
    /\ \E i \in DOMAIN lexicon : lexicon[i].word = <<"b", " ", "b", "-", "b">>
    /\ \E i \in DOMAIN lexicon : lexicon[i].word = B
    /\ \A i \in DOMAIN lexicon : lexicon[i].word # <<"b", "1">>

\* every code the read listed for the word is still stored
CodesKept(w) ==
    \A k \in DOMAIN word_codes[w] : HasKey(lexicon, w, word_codes[w][k])

\* the stored words paired with w
Partners(w) ==
    {q[2] : q \in {r \in antonym_pairs : r[1] = w /\ r[2] \in DOMAIN word_codes}}

PassRunning == pc = "apply" \/ (pc = "override" /\ override_index = 0)

\* C17.  A pair with a word of the override table causes no update in the
\* antonym pass: the rows of an override word are not changed by the pass,
\* and a word outside the table whose non-neutral antonyms are all in the
\* table keeps every code it had, so it is still neutral after the pass.
C17_OverridePairsSkipped ==
    /\ PassRunning =>
          \A w \in DOMAIN word_codes : w \in OverrideWords => CodesKept(w)
    /\ (pc = "apply" \/ AfterPropagation) =>
          \A w \in DOMAIN word_codes :
              ( /\ w \notin OverrideWords
                /\ \A b \in Partners(w) :
                      ListedValence(b) # "0" => b \in OverrideWords )
              => CodesKept(w)

\* after the pass: the neutral 'a' has the stored antonym 'fired', which is
\* override-protected and negative, and 'a' is still neutral
C17_Witness ==
    /\ pc = "override" /\ override_index = 0
    /\ A \in DOMAIN word_codes /\ Fired \in Partners(A)
    /\ Partners(A) = {Fired}
    /\ ListedValence(A) = "0" /\ ListedValence(Fired) = "2"
    /\ valence_fixes = <<>>
    /\ \A i \in DOMAIN lexicon : lexicon[i].word = A => LastChar(lexicon[i].code) = "0"

\* C18.  The pass reads the valence of a word from its first-listed code
\* only: a word whose first-listed code is non-neutral keeps every code it
\* had, neutral ones too, whatever its antonyms; a word whose first-listed
\* code is neutral and that has an eligible non-neutral antonym has all its
\* neutral codes rewritten and keeps its non-neutral ones.
C18_FirstListedCode ==
    AfterPropagation =>
        \A w \in DOMAIN word_codes :
            w \notin OverrideWords =>
                /\ ListedValence(w) # "0" => CodesKept(w)
                /\ ( /\ ListedValence(w) = "0"
                     /\ \E b \in Partners(w) :
                           EligiblePair(w, b) /\ ListedValence(b) # "0" )
                   => \A k \in DOMAIN word_codes[w] :
                          HasKey(lexicon, w, word_codes[w][k])
                              <=> LastChar(word_codes[w][k]) # "0"

\* after the pass: 'a' was listed with a negative code first and a neutral
\* code second, its antonym 'b' is positive, and the neutral code is still
\* stored
C18_Witness ==
    /\ pc = "done"
    /\ A \in DOMAIN word_codes /\ Len(word_codes[A]) = 2
    /\ LastChar(word_codes[A][1]) = "2" /\ LastChar(word_codes[A][2]) = "0"
    /\ EligiblePair(A, B) /\ ListedValence(B) = "1"
    /\ HasKey(lexicon, A, word_codes[A][2])

\* C19.  Propagation does not chain: a word all of whose stored antonyms
\* were neutral before the pass keeps every code it had, also when one of
\* those antonyms was rewritten to non-neutral in the same pass.
C19_NoChaining ==
    AfterPropagation =>
        \A w \in DOMAIN word_codes :
            (\A b \in Partners(w) : ListedValence(b) = "0") => CodesKept(w)

\* after the pass: 'a' and its only antonym 'b' were neutral, 'b' has been
\* rewritten to positive because of 'c', and 'a' is still neutral
C19_Witness ==
    /\ pc = "done"
    /\ Partners(A) = {B}
    /\ ListedValence(A) = "0" /\ ListedValence(B) = "0"
    /\ C \in Partners(B) /\ ListedValence(C) = "2"
    /\ \A i \in DOMAIN lexicon :
          /\ lexicon[i].word = B => LastChar(lexicon[i].code) = "1"
          /\ lexicon[i].word = A => LastChar(lexicon[i].code) = "0"

\* every row of an override word carries the override's digit
OverrideRowsSet ==
    \A i \in DOMAIN lexicon :
        lexicon[i].word \in OverrideWords =>
            <<LastChar(lexicon[i].code)>> = str(OverrideOf(lexicon[i].word))

\* C20.  The terminal override pass changes no row: from the bulk insert on
\* every row of an override word carries the override's digit, the antonym
\* pass leaves those rows alone, and no step of the terminal pass changes
\* the table.
C20_TerminalPassIdle ==
    [][/\ pc = "override" => lexicon' = lexicon
       /\ AfterBulkInsert' => OverrideRowsSet']_vars

\* a finished terminal pass over a table that holds 'fired' (lexical
\* valence positive) and 'good' (lexical valence neutral)
C20_Witness ==
    /\ pc = "done" /\ override_index = Len(VALENCE_OVERRIDES)
    /\ \E i \in DOMAIN kb.rest :
          /\ kb.rest[i] = PositiveFired
          /\ get_valence_sentiwordnet(kb.rest[i]) = 1
    /\ \E i \in DOMAIN lexicon :
          lexicon[i].word = Fired /\ LastChar(lexicon[i].code) = "2"
    /\ \E i \in DOMAIN lexicon :
          lexicon[i].word = Good /\ LastChar(lexicon[i].code) = "1"
    /\ Rows(lexicon) = Rows(InsertMany(<<>>, entries, 1))

\* the table right after the bulk insert of the entries collected
BulkInserted == InsertMany(<<>>, entries, 1)

\* C21.  The antonym pass and the override pass change nothing but the
\* valence digit of existing rows: at every point from the bulk insert on
\* the table has the rows it had right after the bulk insert, each with the
\* same word, priority, superclass, local sequence, POS digit and
\* abstractness digit.
C21_OnlyValenceDigitChanges ==
    AfterBulkInsert =>
        /\ Len(lexicon) = Len(BulkInserted)
        /\ \A i \in DOMAIN lexicon :
              /\ lexicon[i].word = BulkInserted[i].word
              /\ lexicon[i].priority = BulkInserted[i].priority
              /\ SubSeq(split(lexicon[i].code, "-"), 1, 4)
                    = SubSeq(split(BulkInserted[i].code, "-"), 1, 4)
              /\ Len(split(lexicon[i].code, "-")) = 5
              /\ split(lexicon[i].code, "-")[5] \in {<<"0">>, <<"1">>, <<"2">>}

\* a finished build in which the antonym pass rewrote the code of 'a' and
\* the table holds an override word too
C21_Witness ==
    /\ pc = "done" /\ fix_index > 0
    /\ \E i \in DOMAIN lexicon :
          /\ lexicon[i].word = A
          /\ lexicon[i].code # BulkInserted[i].code
          /\ ButLast(lexicon[i].code) = ButLast(BulkInserted[i].code)
    /\ \E i \in DOMAIN lexicon : lexicon[i].word \in OverrideWords

\* C22.  check_determinism passes with no issue whatever the table holds:
\* the grouped query lists every word once, so no word is met a second
\* time.
C22_DeterminismAlwaysPasses ==
    /\ check_determinism(lexicon) = <<TRUE, <<>>>>
    /\ \A i, j \in DOMAIN GroupedByWord(lexicon) :
          GroupedByWord(lexicon)[i].word = GroupedByWord(lexicon)[j].word => i = j
    /\ check_index >= 1 => check_passed[1]
    /\ check_index = 1 => all_issues = <<>>

\* check_determinism has run on a table that holds two codes for one word
C22_Witness ==
    /\ pc = "validate" /\ check_index = 1 /\ check_passed = <<TRUE>>
    /\ Len(lexicon) = 2
    /\ lexicon[1].word = lexicon[2].word
    /\ lexicon[1].code # lexicon[2].code
=============================================================================
